---- MODULE Spec2Model ----
(***************************************************************************)
(* A model of pycrdt's Doc (python/pycrdt/_doc.py): the transaction entry  *)
(* points, root access through the identity cache, and the event streams   *)
(* fed by the native change notification.                                  *)
(*                                                                         *)
(* Transaction / NewTransaction / ReadTransaction (_transaction.py),       *)
(* forbid_read_transaction and integrated_cache (_base.py) and the native  *)
(* engine (_pycrdt) are not part of _doc.py; the operators that stand for  *)
(* them follow the design document and are marked as such.                 *)
(***************************************************************************)
EXTENDS Integers, Sequences, FiniteSets, TLC

\* ---------------------------------------------------------------- bounds
MaxTxn == 3
MaxDepth == 2
MaxWrappers == 3
MaxStreams == 3
\* the streams opened where both kinds of event are followed
BusStreams == 2
BoundedCap == 1

\* max_buffer_size defaults to float("inf")
Inf == 1000

Callers == {"c1", "c2", "c3"}
Pair == {"c1", "c2"}
Origins == {"A", "B"}
NoOrigin == "None"
\* root names: an identifier and the empty string
Names == {"a", ""}
Identifiers == {"a"}
\* a key that is no string (an int)
NonString == "<int 7>"
Keys == Names \cup {NonString}
Child == "a.child"
Nodes == Names \cup {Child}
Updates == {"u1", "bad"}
TwinUpdates == Updates \cup {"inv"}
ModelFields == {"a"}
TxnIds == 1..MaxTxn
WIds == 1..MaxWrappers
StreamIds == 1..MaxStreams
Caps == {BoundedCap, Inf}

VARIABLES
    mt,             \* Doc._allow_multithreading
    docTxn,         \* Doc._txn, one slot per thread when mt, else one for the document
    txn,            \* the transaction objects created so far
    slot,           \* the document's coordination slot: the transaction holding it, or 0
    queue,          \* callers waiting to acquire the slot, longest wait first
    pend,           \* the call each waiting caller is blocked in
    scopes,         \* per caller, the stack of `with` scopes it is inside of
    engine,         \* the native document state
    twin,           \* Doc._twin_doc, the document validated against Doc._Model
    rebuilt,        \* the document last rebuilt from what __reduce__ returned
    wnode,          \* per wrapper object, the node it is bound to ("free": no such object)
    cache,          \* integrated_cache: node -> live wrapper, or 0
    streams,        \* the memory object streams created by events()
    sendStreams,    \* Doc._send_streams
    eventSub,       \* Doc._event_subscription
    subscriptions,  \* Doc._subscriptions (the native registrations not yet dropped)
    fired,          \* per kind, the native events fired so far, in commit order
    cbLog,          \* per kind, the events _send_event was invoked with
    overflowed,     \* the streams that were full when an event was sent to them
    last            \* the last call made and its outcome

txnVars == <<mt, docTxn, txn, slot, queue, pend, scopes>>
docVars == <<engine, twin, rebuilt, wnode, cache>>
busVars == <<streams, sendStreams, eventSub, subscriptions, fired, cbLog, overflowed>>
vars == <<txnVars, docVars, busVars, last>>

\* ------------------------------------------------------------- transactions
NoTxn == [st |-> "unused", origin |-> NoOrigin, ro |-> FALSE, leases |-> 0,
          dirty |-> {}, rel |-> 0]
NoReq == [op |-> "none"]

\* Doc._txn as seen by caller c
SlotOf(c) == IF mt THEN c ELSE "doc"
GetTxn(c) == docTxn[SlotOf(c)]

HasFreshTxn == \E i \in TxnIds : txn[i].st = "unused"
FreshTxn == CHOOSE i \in TxnIds : txn[i].st = "unused" /\ \A j \in 1..(i-1) : txn[j].st # "unused"

KNow == [txn |-> txn, docTxn |-> docTxn, slot |-> slot]

\* Doc.transaction without the comparison of the origins
DocTransactionAnyOrigin(c, origin) ==
    LET t == GetTxn(c) IN
    IF t # 0
    THEN [err |-> "ok", t |-> t, fresh |-> FALSE]
    ELSE [err |-> "ok", t |-> FreshTxn, fresh |-> TRUE]

\* Doc.transaction without the reuse of the ongoing transaction
DocTransactionAlwaysNew(c, origin) ==
    [err |-> "ok", t |-> FreshTxn, fresh |-> TRUE]

\* Doc.transaction: the ongoing transaction, after the origin check, or a new one
DocTransaction(c, origin) ==
    LET t == GetTxn(c) IN
    IF t # 0
    THEN IF origin # NoOrigin /\ origin # txn[t].origin
         THEN [err |-> "IncompatibleOrigin", t |-> 0, fresh |-> FALSE]
         ELSE [err |-> "ok", t |-> t, fresh |-> FALSE]
    ELSE [err |-> "ok", t |-> FreshTxn, fresh |-> TRUE]

\* Doc.new_transaction handing out the ongoing transaction when there is one
DocNewTransactionReuse(c, origin) ==
    IF GetTxn(c) # 0
    THEN [err |-> "ok", t |-> GetTxn(c), fresh |-> FALSE]
    ELSE [err |-> "ok", t |-> FreshTxn, fresh |-> TRUE]

\* Doc.new_transaction: always a new NewTransaction object
DocNewTransaction(c, origin) ==
    [err |-> "ok", t |-> FreshTxn, fresh |-> TRUE]

\* Doc._read_transaction: a ReadTransaction around an engine transaction
DocReadTransaction(c) ==
    [err |-> "ok", t |-> FreshTxn, fresh |-> TRUE]

\* Scope entry: one more lease; a transaction that is not open yet takes the slot
TxnEnter(K, c, t, origin, ro) ==
    IF K.txn[t].st = "open"
    THEN [K EXCEPT !.txn[t].leases = @ + 1]
    ELSE [K EXCEPT !.txn[t] = [st |-> "open", origin |-> origin, ro |-> ro,
                               leases |-> 1, dirty |-> {}, rel |-> 0],
                   !.docTxn[SlotOf(c)] = t,
                   !.slot = IF ro THEN @ ELSE t]

\* Scope exit, by the end of the block or by an exception raised in it (exc): one
\* lease less; the last lease commits and releases the slot
TxnExit(K, c, t, exc) ==
    IF K.txn[t].leases > 1
    THEN [K EXCEPT !.txn[t].leases = @ - 1]
    ELSE [K EXCEPT !.txn[t] = [NoTxn EXCEPT !.st = "done", !.ro = K.txn[t].ro,
                                            !.rel = IF K.txn[t].ro THEN K.txn[t].rel
                                                    ELSE K.txn[t].rel + 1],
                   !.docTxn[SlotOf(c)] = 0,
                   !.slot = IF K.txn[t].ro THEN @ ELSE 0]

\* the kinds of native event the exit of scope t fires
CommitKinds(K, t) ==
    IF K.txn[t].leases = 1 /\ ~K.txn[t].ro THEN K.txn[t].dirty ELSE {}

\* forbid_read_transaction(txn), txn the transaction self.transaction() gives caller
\* c: whether it raises, which it does for a read-only transaction
ForbidReadTransaction(c) == GetTxn(c) # 0 /\ txn[GetTxn(c)].ro

\* whether the slot can be taken now
SlotFree == slot = 0 /\ (~mt => docTxn["doc"] = 0)


\* ------------------------------------------------------------------ engine
\* the engine of Doc()
NewEngine == [roots |-> [n \in Names |-> "absent"], child |-> FALSE, applied |-> {}]

\* self._doc.get_update(b"\x00"): all the content of the document; a root without
\* content leaves no trace in it
GetUpdate(E) ==
    [data |-> {n \in Names : E.roots[n] = "data"}, child |-> E.child, applied |-> E.applied]

\* the engine merging a full update
MergeUpdate(E, upd) ==
    [roots |-> [n \in Names |-> IF n \in upd.data THEN "data" ELSE E.roots[n]],
     child |-> E.child \/ upd.child,
     applied |-> E.applied \cup upd.applied]

\* Doc.__reduce__: the names of the roots (with their types)
RootTypes == {n \in Names : engine.roots[n] # "absent"}

\* _rebuild_doc without the loop over the roots
RebuildDocNoRoots(update, roots) ==
    MergeUpdate(NewEngine, update)

\* _rebuild_doc: a new Doc, the update applied, then every root assigned a new
\* wrapper of its type, which makes the root when the update did not
RebuildDoc(update, roots) ==
    LET E == MergeUpdate(NewEngine, update) IN
    [E EXCEPT !.roots = [n \in Names |->
                            IF n \in roots /\ E.roots[n] = "absent" THEN "empty"
                            ELSE E.roots[n]]]

\* root assignment body without the call of forbid_read_transaction
SetItemBodyUnchecked(c, name, content, w) ==
    [err |-> "ok",
     engine |-> [engine EXCEPT !.roots[name] =
                     IF content THEN "data" ELSE IF @ = "absent" THEN "empty" ELSE @],
     wnode |-> [wnode EXCEPT ![w] = name],
     cache |-> cache,
     dirty |-> IF content THEN {FALSE} ELSE {},
     ret |-> w]

\* root assignment body: refuse a read-only transaction, then get-or-insert the
\* root, integrate the preliminary wrapper w and initialise it with its content
SetItemBody(c, name, content, w) ==
    IF ForbidReadTransaction(c)
    THEN [err |-> "ReadOnly", engine |-> engine, wnode |-> wnode, cache |-> cache,
          dirty |-> {}, ret |-> 0]
    ELSE [err |-> "ok",
          engine |-> [engine EXCEPT !.roots[name] =
                          IF content THEN "data" ELSE IF @ = "absent" THEN "empty" ELSE @],
          wnode |-> [wnode EXCEPT ![w] = name],
          cache |-> cache,
          dirty |-> IF content THEN {FALSE} ELSE {},
          ret |-> w]

\* apply_update body (no Model configured): refuse a read-only transaction, then
\* hand the bytes to the engine, which rejects malformed ones
ApplyUpdateBody(c, u) ==
    IF ForbidReadTransaction(c)
    THEN [err |-> "ReadOnly", engine |-> engine, wnode |-> wnode, cache |-> cache,
          dirty |-> {}, ret |-> 0]
    ELSE IF u = "bad"
    THEN [err |-> "EngineError", engine |-> engine, wnode |-> wnode, cache |-> cache,
          dirty |-> {}, ret |-> 0]
    ELSE [err |-> "ok",
          engine |-> [engine EXCEPT !.applied = @ \cup {u}],
          wnode |-> wnode, cache |-> cache,
          dirty |-> IF u \in engine.applied THEN {} ELSE {FALSE},
          ret |-> 0]

\* a node-level mutation (inserting a child under root "a"; a subdocument when sub)
NodeSetBody(c, sub) ==
    IF ForbidReadTransaction(c)
    THEN [err |-> "ReadOnly", engine |-> engine, wnode |-> wnode, cache |-> cache,
          dirty |-> {}, ret |-> 0]
    ELSE [err |-> "ok",
          engine |-> [engine EXCEPT !.child = TRUE],
          wnode |-> wnode, cache |-> cache,
          dirty |-> IF sub THEN {FALSE, TRUE} ELSE {FALSE},
          ret |-> 0]

\* ---------------------------------------------------------- identity cache
FreeWs(W) == {w \in WIds : W.wnode[w] = "free"}
FreeW(W) == CHOOSE w \in FreeWs(W) : \A v \in FreeWs(W) : w <= v
WNow == [wnode |-> wnode, cache |-> cache]

\* a lookup that never consults the cache
LookupAlwaysCreate(W, node) ==
    LET w == FreeW(W) IN
    [W |-> [wnode |-> [W.wnode EXCEPT ![w] = node],
            cache |-> [W.cache EXCEPT ![node] = w]],
     w |-> w]

\* the cached wrapper of the node when there is one, else a new wrapper, cached
LookupOrCreate(W, node) ==
    IF W.cache[node] # 0
    THEN [W |-> W, w |-> W.cache[node]]
    ELSE LET w == FreeW(W) IN
         [W |-> [wnode |-> [W.wnode EXCEPT ![w] = node],
                 cache |-> [W.cache EXCEPT ![node] = w]],
          w |-> w]

\* a wrapper object that is no longer referenced: its weak cache entries vanish
Collect(W, w) ==
    [wnode |-> [W.wnode EXCEPT ![w] = "free"],
     cache |-> [n \in Nodes |-> IF W.cache[n] = w THEN 0 ELSE W.cache[n]]]

RECURSIVE CollectAll(_, _)
CollectAll(W, ws) ==
    IF ws = {} THEN W
    ELSE LET w == CHOOSE x \in ws : TRUE IN CollectAll(Collect(W, w), ws \ {w})

RootKeys == {n \in Names : engine.roots[n] # "absent"}

RECURSIVE SetToSeq(_)
SetToSeq(S) ==
    IF S = {} THEN <<>>
    ELSE LET x == CHOOSE y \in S : TRUE IN <<x>> \o SetToSeq(S \ {x})

\* Doc._roots: every root of the engine, as its cached or newly made wrapper
RECURSIVE RootsLoop(_, _, _, _)
RootsLoop(W, keys, i, map) ==
    IF i > Len(keys) THEN [W |-> W, map |-> map]
    ELSE LET r == LookupOrCreate(W, keys[i]) IN
         RootsLoop(r.W, keys, i + 1, [map EXCEPT ![keys[i]] = r.w])

Roots == RootsLoop(WNow, SetToSeq(RootKeys), 1, [n \in Names |-> 0])

\* Doc.__getitem__: self._roots[key]; the other wrappers made on the way are dropped
GetItemBody(name) ==
    LET R == Roots
        made == {w \in WIds : wnode[w] = "free" /\ R.W.wnode[w] # "free"}
        ret == R.map[name]
        W2 == CollectAll(R.W, made \ {ret})
    IN  IF ret = 0
        THEN [err |-> "KeyError", engine |-> engine, wnode |-> W2.wnode, cache |-> W2.cache,
              dirty |-> {}, ret |-> 0]
        ELSE [err |-> "ok", engine |-> engine, wnode |-> W2.wnode, cache |-> W2.cache,
              dirty |-> {}, ret |-> ret]

\* the items() of Doc.__reduce__: self._roots, of which only the types are kept
ItemsBody ==
    LET R == Roots
        made == {w \in WIds : wnode[w] = "free" /\ R.W.wnode[w] # "free"}
        W2 == CollectAll(R.W, made)
    IN  [err |-> "ok", engine |-> engine, wnode |-> W2.wnode, cache |-> W2.cache,
         dirty |-> {}, ret |-> 0]

\* the lookup of the child of root "a" through its parent wrapper
GetChildBody ==
    LET r == LookupOrCreate(WNow, Child) IN
    [err |-> "ok", engine |-> engine, wnode |-> r.W.wnode, cache |-> r.W.cache,
     dirty |-> {}, ret |-> r.w]

\* --------------------------------------------------------------- event bus
NoStream == [st |-> "unused", subdocs |-> FALSE, cap |-> Inf, buf |-> <<>>,
             recvOpen |-> FALSE, sendClosed |-> FALSE, since |-> 0, got |-> <<>>,
             found |-> "none"]

BNow == [streams |-> streams, sendStreams |-> sendStreams, eventSub |-> eventSub,
         subscriptions |-> subscriptions, fired |-> fired, cbLog |-> cbLog,
         overflowed |-> overflowed, raised |-> "ok"]

\* MemoryObjectSendStream.send_nowait
SendNowait(s) ==
    IF s.sendClosed THEN "ClosedResourceError"
    ELSE IF ~s.recvOpen THEN "BrokenResourceError"
    ELSE IF Len(s.buf) < s.cap THEN "ok"
    ELSE "WouldBlock"

\* the first loop of _send_event: only BrokenResourceError is caught
RECURSIVE SendLoop(_, _, _, _, _)
SendLoop(S, order, i, ev, toRemove) ==
    IF i > Len(order)
    THEN [streams |-> S, toRemove |-> toRemove, raised |-> "ok", full |-> {}]
    ELSE LET s == order[i]
             r == SendNowait(S[s])
         IN  IF r = "ok"
             THEN SendLoop([S EXCEPT ![s].buf = Append(@, ev), ![s].got = Append(@, ev)],
                           order, i + 1, ev, toRemove)
             ELSE IF r = "BrokenResourceError"
             THEN SendLoop(S, order, i + 1, ev, toRemove \cup {s})
             ELSE [streams |-> S, toRemove |-> toRemove, raised |-> r,
                   full |-> IF r = "WouldBlock" THEN {s} ELSE {}]

\* Doc.unobserve
Unobserve(subs, sub) == subs \ {sub}

\* Doc._send_event without the unobserve of its last two lines
SendEventKeepSubscription(B, subdocs, ev, order) ==
    LET L == SendLoop(B.streams, order, 1, ev, {})
        B1 == [B EXCEPT !.cbLog[subdocs] = Append(@, ev)]
    IN  IF L.raised # "ok"
        THEN [B1 EXCEPT !.streams = L.streams,
                        !.overflowed = @ \cup L.full,
                        !.raised = L.raised]
        ELSE [B1 EXCEPT !.streams = [s \in StreamIds |->
                                        IF s \in L.toRemove
                                        THEN [L.streams[s] EXCEPT !.sendClosed = TRUE]
                                        ELSE L.streams[s]],
                        !.sendStreams[subdocs] = @ \ L.toRemove]

\* Doc._send_event
SendEvent(B, subdocs, ev, order) ==
    LET L == SendLoop(B.streams, order, 1, ev, {})
        B1 == [B EXCEPT !.cbLog[subdocs] = Append(@, ev)]
    IN  IF L.raised # "ok"
        THEN [B1 EXCEPT !.streams = L.streams,
                        !.overflowed = @ \cup L.full,
                        !.raised = L.raised]
        ELSE LET left == B.sendStreams[subdocs] \ L.toRemove IN
             [B1 EXCEPT !.streams = [s \in StreamIds |->
                                        IF s \in L.toRemove
                                        THEN [L.streams[s] EXCEPT !.sendClosed = TRUE]
                                        ELSE L.streams[s]],
                        !.sendStreams[subdocs] = left,
                        !.subscriptions = IF left = {}
                                          THEN Unobserve(@, B.eventSub[subdocs])
                                          ELSE @]

\* the engine calls every registered callback of the kind with the event
NativeSubs(B, subdocs) ==
    {s \in B.subscriptions : B.streams[s].subdocs = subdocs}

RECURSIVE Notify(_, _, _, _, _)
Notify(B, subs, subdocs, ev, order) ==
    IF subs = {} THEN B
    ELSE LET s == CHOOSE x \in subs : TRUE
             B1 == IF s \in B.subscriptions
                   THEN SendEvent(B, subdocs, ev,
                                  SelectSeq(order, LAMBDA x : x \in B.sendStreams[subdocs]))
                   ELSE B
         IN  Notify(B1, subs \ {s}, subdocs, ev, order)

FireKind(B, kinds, subdocs, ev, order) ==
    IF subdocs \in kinds
    THEN Notify([B EXCEPT !.fired[subdocs] = Append(@, ev)],
                NativeSubs(B, subdocs), subdocs, ev, order)
    ELSE B

\* the commit of transaction ev fires the transaction event, then the subdocs event
Fire(B, kinds, ev, ordF, ordT) ==
    FireKind(FireKind(B, kinds, FALSE, ev, ordF), kinds, TRUE, ev, ordT)

\* the orders in which a set may be iterated
Orders(S) ==
    {q \in [1..Cardinality(S) -> S] : \A i, j \in 1..Cardinality(S) : q[i] = q[j] => i = j}


\* ------------------------------------------------------------------- calls
Req(op, origin, name, flag, tmo) ==
    [op |-> op, origin |-> origin, name |-> name, flag |-> flag, tmo |-> tmo]



Unchanged(res, ret) ==
    [K |-> KNow, W |-> WNow, E |-> engine, T |-> twin, B |-> BNow, scopes |-> scopes,
     res |-> res, ret |-> ret]

\* the block without `with`: enter, body, exit, the exit skipped when the body raises
WithTransactionLeak(c, b, ordF, ordT) ==
    LET r == DocTransaction(c, NoOrigin)
        t == r.t
        K1 == TxnEnter(KNow, c, t, NoOrigin, FALSE)
        K2 == [K1 EXCEPT !.txn[t].dirty = @ \cup b.dirty]
        B == Fire(BNow, CommitKinds(K2, t), t, ordF, ordT)
        K3 == TxnExit(K2, c, t, FALSE)
    IN  IF b.err # "ok"
        THEN [K |-> K1, W |-> WNow, E |-> engine, T |-> twin, B |-> BNow,
              scopes |-> scopes, res |-> b.err, ret |-> 0]
        ELSE [K |-> K3, W |-> [wnode |-> b.wnode, cache |-> b.cache], E |-> b.engine,
              T |-> twin, B |-> B, scopes |-> scopes, res |-> B.raised, ret |-> b.ret]

\* `with self.transaction() as txn: <body>`: enter the ongoing or a new transaction,
\* run the body (b: what it does), and leave the scope whether or not it raised
WithTransaction(c, b, ordF, ordT) ==
    LET r == DocTransaction(c, NoOrigin)
        t == r.t
        K1 == TxnEnter(KNow, c, t, NoOrigin, FALSE)
        K2 == [K1 EXCEPT !.txn[t].dirty = @ \cup b.dirty]
        B == Fire(BNow, CommitKinds(K2, t), t, ordF, ordT)
        K3 == TxnExit(K2, c, t, b.err # "ok")
    IN  [K |-> K3, W |-> [wnode |-> b.wnode, cache |-> b.cache], E |-> b.engine,
         T |-> twin, B |-> B, scopes |-> scopes,
         res |-> IF b.err # "ok" THEN b.err ELSE B.raised, ret |-> b.ret]

\* Doc.__setitem__ in `doc[name] = wrapper`, the wrapper a new preliminary one
DocSetItem(c, name, content, ordF, ordT) ==
    WithTransaction(c, SetItemBody(c, name, content, FreeW(WNow)), ordF, ordT)

\* isinstance(key, str)
IsInstanceStr(key) == key # NonString

\* Doc.__setitem__ without the check of the key: the engine refuses the key inside
\* the transaction
DocSetItemKeyUnchecked(c, key, content, ordF, ordT) ==
    IF ~IsInstanceStr(key)
    THEN WithTransaction(c, [err |-> "TypeError", engine |-> engine, wnode |-> wnode,
                             cache |-> cache, dirty |-> {}, ret |-> 0], ordF, ordT)
    ELSE LET R == WithTransaction(c, SetItemBody(c, key, content, FreeW(WNow)), ordF, ordT)
         IN  [R EXCEPT !.W = Collect(R.W, FreeW(WNow)), !.ret = 0]

\* Doc.__setitem__ in `doc[key] = Type(content)`, key any value
DocSetItemKey(c, key, content, ordF, ordT) ==
    IF ~IsInstanceStr(key)
    THEN Unchanged("KeyMustBeString", 0)
    ELSE LET R == WithTransaction(c, SetItemBody(c, key, content, FreeW(WNow)), ordF, ordT)
         IN  [R EXCEPT !.W = Collect(R.W, FreeW(WNow)), !.ret = 0]

\* `doc[name] = Type(content)`: the caller keeps no reference to the wrapper
DocSetItemTransient(c, name, content, ordF, ordT) ==
    LET R == DocSetItem(c, name, content, ordF, ordT)
        W == Collect(R.W, FreeW(WNow))
    IN  [R EXCEPT !.W = W, !.ret = 0]

\* Doc.get(key, type=...): a new wrapper, assigned to the root, returned
DocGet(c, name, ordF, ordT) ==
    DocSetItem(c, name, FALSE, ordF, ordT)

\* no Model configured
NoTwin == [on |-> FALSE, roots |-> [n \in Names |-> "absent"], applied |-> {}]

\* Doc(init) where the values of init are wrappers already integrated in the
\* document with engine state E (Doc(init) after the loop of __init__, and
\* Doc(dict(self))): each becomes a root of the new document, and, having no
\* preliminary content left, brings none; no update is transferred
TwinDoc(E) ==
    [on |-> TRUE,
     roots |-> [n \in Names |-> IF E.roots[n] = "absent" THEN "absent" ELSE "empty"],
     applied |-> {}]

\* twin_doc.apply_update(update): the twin has no Model and a transaction of its own
TwinApplyUpdate(T, u) ==
    IF u = "bad"
    THEN [err |-> "EngineError", T |-> T]
    ELSE [err |-> "ok", T |-> [T EXCEPT !.applied = @ \cup {u}]]

\* reading the Model's fields off the twin, then self._Model(**d)
Validate(T) ==
    IF \E k \in ModelFields : T.roots[k] = "absent" THEN "KeyError"
    ELSE IF "inv" \in T.applied THEN "ValidationError"
    ELSE "ok"

\* Doc.apply_update
DocApplyUpdate(c, u, ordF, ordT) ==
    IF ~twin.on
    THEN WithTransaction(c, ApplyUpdateBody(c, u), ordF, ordT)
    ELSE LET a == TwinApplyUpdate(twin, u)
             v == Validate(a.T)
         IN  IF a.err # "ok" THEN Unchanged(a.err, 0)
             ELSE IF v = "KeyError" THEN [Unchanged(v, 0) EXCEPT !.T = a.T]
             ELSE IF v # "ok" THEN [Unchanged(v, 0) EXCEPT !.T = TwinDoc(engine)]
             ELSE [WithTransaction(c, ApplyUpdateBody(c, u), ordF, ordT) EXCEPT !.T = a.T]

\* Doc.__getitem__
DocGetItem(c, name, ordF, ordT) ==
    WithTransaction(c, GetItemBody(name), ordF, ordT)

\* Doc.__reduce__: items() and get_update()
DocReduce(c, ordF, ordT) ==
    WithTransaction(c, ItemsBody, ordF, ordT)

\* a mutation through the wrapper of root "a"
NodeSet(c, sub, ordF, ordT) ==
    WithTransaction(c, NodeSetBody(c, sub), ordF, ordT)

\* wrapper["child"] on the wrapper of root "a"
NodeGetChild(c, ordF, ordT) ==
    WithTransaction(c, GetChildBody, ordF, ordT)

\* `with doc.transaction(origin):` up to the first statement of the block
EnterTransaction(c, origin) ==
    LET r == DocTransaction(c, origin) IN
    IF r.err # "ok" THEN Unchanged(r.err, 0)
    ELSE [Unchanged("ok", 0) EXCEPT
             !.K = TxnEnter(KNow, c, r.t, origin, FALSE),
             !.scopes = [scopes EXCEPT ![c] = Append(@, r.t)]]

\* a NewTransaction.__enter__ that never refuses
AlreadyInTransactionNever(isAsync) == FALSE

\* NewTransaction.__enter__ from blocking code without multithreading
AlreadyInTransaction(isAsync) == ~mt /\ ~isAsync /\ docTxn["doc"] # 0

\* `with doc.new_transaction(origin, timeout):` once the slot is available
EnterNewTransaction(c, origin, isAsync) ==
    LET r == DocNewTransaction(c, origin) IN
    IF r.fresh /\ AlreadyInTransaction(isAsync) THEN Unchanged("AlreadyInTransaction", 0)
    ELSE [Unchanged("ok", 0) EXCEPT
             !.K = TxnEnter(KNow, c, r.t, origin, FALSE),
             !.scopes = [scopes EXCEPT ![c] = Append(@, r.t)]]

\* `with doc._read_transaction(_txn):`
EnterReadTransaction(c) ==
    LET r == DocReadTransaction(c) IN
    [Unchanged("ok", 0) EXCEPT
        !.K = TxnEnter(KNow, c, r.t, NoOrigin, TRUE),
        !.scopes = [scopes EXCEPT ![c] = Append(@, r.t)]]

\* the end of the innermost `with` block of caller c
ExitTransaction(c, exc, ordF, ordT) ==
    LET t == scopes[c][Len(scopes[c])]
        B == Fire(BNow, CommitKinds(KNow, t), t, ordF, ordT)
    IN  [Unchanged(B.raised, 0) EXCEPT
            !.K = TxnExit(KNow, c, t, exc),
            !.B = B,
            !.scopes = [scopes EXCEPT ![c] = SubSeq(@, 1, Len(@) - 1)]]

Result(c, req, ordF, ordT) ==
    CASE req.op = "transaction" -> EnterTransaction(c, req.origin)
      [] req.op = "new_transaction" -> EnterNewTransaction(c, req.origin, req.flag)
      [] req.op = "read_transaction" -> EnterReadTransaction(c)
      [] req.op = "exit" -> ExitTransaction(c, req.flag, ordF, ordT)
      [] req.op = "setitem" -> DocSetItemTransient(c, req.name, req.flag, ordF, ordT)
      [] req.op = "setitem_keep" -> DocSetItem(c, req.name, req.flag, ordF, ordT)
      [] req.op = "get" -> DocGet(c, req.name, ordF, ordT)
      [] req.op = "apply_update" -> DocApplyUpdate(c, req.name, ordF, ordT)
      [] req.op = "getitem" -> DocGetItem(c, req.name, ordF, ordT)
      [] req.op = "nodeset" -> NodeSet(c, req.flag, ordF, ordT)
      [] req.op = "getchild" -> NodeGetChild(c, ordF, ordT)
      [] req.op = "reduce" -> DocReduce(c, ordF, ordT)
      [] req.op = "setitem_key" -> DocSetItemKey(c, req.name, req.flag, ordF, ordT)

Implicit == {"setitem", "setitem_keep", "get", "apply_update", "getitem", "nodeset", "getchild",
             "reduce"}

\* whether the call has to wait for the slot
MustBlock(c, req) ==
    CASE req.op \in Implicit \cup {"transaction"} ->
            GetTxn(c) = 0 /\ mt /\ (slot # 0 \/ queue # <<>>)
      [] req.op = "setitem_key" ->
            IsInstanceStr(req.name) /\ GetTxn(c) = 0 /\ mt /\ (slot # 0 \/ queue # <<>>)
      [] req.op = "new_transaction" ->
            /\ DocNewTransaction(c, req.origin).fresh
            /\ IF mt THEN slot # 0 \/ queue # <<>>
               ELSE req.flag /\ (docTxn["doc"] # 0 \/ queue # <<>>)
      [] OTHER -> FALSE

\* the root name a call is recorded with
LastName(req) ==
    IF req.op \in {"getitem", "get", "setitem_keep", "setitem_key"} THEN req.name ELSE ""

Perform(c, req) ==
    \E ordF \in Orders(sendStreams[FALSE]), ordT \in Orders(sendStreams[TRUE]) :
        \E R \in {Result(c, req, ordF, ordT)} :
        /\ txn' = R.K.txn
        /\ docTxn' = R.K.docTxn
        /\ slot' = R.K.slot
        /\ scopes' = R.scopes
        /\ engine' = R.E
        /\ twin' = R.T
        /\ rebuilt' = IF req.op = "reduce" /\ R.res = "ok"
                      THEN [made |-> TRUE, E |-> RebuildDoc(GetUpdate(engine), RootTypes)]
                      ELSE rebuilt
        /\ wnode' = R.W.wnode
        /\ cache' = R.W.cache
        /\ streams' = R.B.streams
        /\ sendStreams' = R.B.sendStreams
        /\ eventSub' = R.B.eventSub
        /\ subscriptions' = R.B.subscriptions
        /\ fired' = R.B.fired
        /\ cbLog' = R.B.cbLog
        /\ overflowed' = R.B.overflowed
        /\ last' = [op |-> req.op, c |-> c, origin |-> req.origin, name |-> LastName(req),
                    res |-> R.res, ret |-> R.ret,
                    old |-> R.ret # 0 /\ wnode[R.ret] # "free"]

Block(c, req) ==
    /\ queue' = Append(queue, c)
    /\ pend' = [pend EXCEPT ![c] = req]
    /\ last' = [op |-> req.op, c |-> c, origin |-> req.origin, name |-> LastName(req),
                res |-> "blocked", ret |-> 0, old |-> FALSE]
    /\ UNCHANGED <<docTxn, txn, slot, scopes, docVars, busVars>>

Call(c, req) ==
    /\ pend[c].op = "none"
    /\ IF MustBlock(c, req)
       THEN Block(c, req)
       ELSE Perform(c, req) /\ UNCHANGED <<queue, pend>>
    /\ UNCHANGED mt

\* ----------------------------------------------------------------- actions
Transaction(c, origin) ==
    /\ Len(scopes[c]) < MaxDepth
    /\ HasFreshTxn
    /\ Call(c, Req("transaction", origin, "", FALSE, FALSE))

NewTransaction(c, origin, isAsync, tmo) ==
    /\ Len(scopes[c]) < MaxDepth
    /\ HasFreshTxn
    /\ mt => ~isAsync
    /\ \A i \in 1..Len(scopes[c]) : ~txn[scopes[c][i]].ro
    /\ Call(c, Req("new_transaction", origin, "", isAsync, tmo))

ReadTransaction(c) ==
    /\ scopes[c] = <<>>
    /\ GetTxn(c) = 0
    /\ HasFreshTxn
    /\ Call(c, Req("read_transaction", NoOrigin, "", FALSE, FALSE))

Exit(c, exc) ==
    /\ scopes[c] # <<>>
    /\ Call(c, Req("exit", NoOrigin, "", exc, FALSE))

SetItem(c, name, content, keep) ==
    /\ HasFreshTxn
    /\ FreeWs(WNow) # {}
    /\ Call(c, Req(IF keep THEN "setitem_keep" ELSE "setitem", NoOrigin, name, content, FALSE))

Get(c, name) ==
    /\ HasFreshTxn
    /\ FreeWs(WNow) # {}
    /\ Call(c, Req("get", NoOrigin, name, FALSE, FALSE))

ApplyUpdate(c, u) ==
    /\ HasFreshTxn
    /\ Call(c, Req("apply_update", NoOrigin, u, FALSE, FALSE))

GetItem(c, name) ==
    /\ HasFreshTxn
    /\ Cardinality(FreeWs(WNow)) >= Cardinality(Names)
    /\ Call(c, Req("getitem", NoOrigin, name, FALSE, FALSE))

\* doc[key] = Type(content), the key any value
SetItemKey(c, key, content) ==
    /\ HasFreshTxn
    /\ FreeWs(WNow) # {}
    /\ Call(c, Req("setitem_key", NoOrigin, key, content, FALSE))

\* pickle.loads(pickle.dumps(doc))
Pickle(c) ==
    /\ HasFreshTxn
    /\ Cardinality(FreeWs(WNow)) >= Cardinality(Names)
    /\ Call(c, Req("reduce", NoOrigin, "", FALSE, FALSE))

SetChild(c, sub) ==
    /\ HasFreshTxn
    /\ engine.roots["a"] # "absent"
    /\ Call(c, Req("nodeset", NoOrigin, "", sub, FALSE))

GetChild(c) ==
    /\ HasFreshTxn
    /\ engine.child
    /\ FreeWs(WNow) # {}
    /\ Call(c, Req("getchild", NoOrigin, "", FALSE, FALSE))

\* a release that wakes any one of the waiters
GrantAnyWaiter(c) ==
    /\ \E i \in 1..Len(queue) : queue[i] = c
    /\ SlotFree
    /\ HasFreshTxn
    /\ Perform(c, pend[c])
    /\ queue' = SelectSeq(queue, LAMBDA x : x # c)
    /\ pend' = [pend EXCEPT ![c] = NoReq]
    /\ UNCHANGED mt

\* the slot became free: the longest-waiting caller goes on with its call
Grant(c) ==
    /\ queue # <<>>
    /\ Head(queue) = c
    /\ SlotFree
    /\ HasFreshTxn
    /\ (pend[c].op \in {"setitem", "setitem_keep", "setitem_key", "get", "getchild"} =>
            FreeWs(WNow) # {})
    /\ (pend[c].op \in {"getitem", "reduce"} =>
            Cardinality(FreeWs(WNow)) >= Cardinality(Names))
    /\ Perform(c, pend[c])
    /\ queue' = Tail(queue)
    /\ pend' = [pend EXCEPT ![c] = NoReq]
    /\ UNCHANGED mt

\* a timeout that gives up without leaving the line of waiters
TimeoutStaysQueued(c) ==
    /\ pend[c].op = "new_transaction"
    /\ pend[c].tmo
    /\ pend' = [pend EXCEPT ![c] = NoReq]
    /\ last' = [op |-> "timeout", c |-> c, origin |-> pend[c].origin, name |-> "",
                res |-> "Timeout", ret |-> 0, old |-> FALSE]
    /\ UNCHANGED <<mt, docTxn, txn, slot, queue, scopes, docVars, busVars>>

\* the timeout of a waiting new_transaction(timeout=...) elapses
Timeout(c) ==
    /\ pend[c].op = "new_transaction"
    /\ pend[c].tmo
    /\ queue' = SelectSeq(queue, LAMBDA x : x # c)
    /\ pend' = [pend EXCEPT ![c] = NoReq]
    /\ last' = [op |-> "timeout", c |-> c, origin |-> pend[c].origin, name |-> "",
                res |-> "Timeout", ret |-> 0, old |-> FALSE]
    /\ UNCHANGED <<mt, docTxn, txn, slot, scopes, docVars, busVars>>

\* the caller drops its last reference to wrapper w
DropWrapper(w) ==
    /\ wnode[w] # "free"
    /\ LET W == Collect(WNow, w) IN wnode' = W.wnode /\ cache' = W.cache
    /\ last' = [op |-> "drop", c |-> "", origin |-> NoOrigin, name |-> "",
                res |-> "ok", ret |-> w, old |-> FALSE]
    /\ UNCHANGED <<txnVars, engine, twin, rebuilt, busVars>>

\* Doc.events registering a native callback at every call
FirstStreamAlways(subdocs) == TRUE

\* Doc.events: `not self._send_streams[subdocs]`
FirstStream(subdocs) == sendStreams[subdocs] = {}

\* Doc.events
Events(subdocs, cap) ==
    /\ \E s \in StreamIds : streams[s].st = "unused"
    /\ LET s == CHOOSE x \in StreamIds :
                    streams[x].st = "unused" /\ \A y \in 1..(x-1) : streams[y].st # "unused"
           first == FirstStream(subdocs)
           found == IF \A x \in StreamIds :
                          streams[x].st = "open" => streams[x].subdocs # subdocs
                    THEN "none"
                    ELSE IF sendStreams[subdocs] = {} THEN "torn"
                    ELSE IF \A x \in sendStreams[subdocs] : ~streams[x].recvOpen
                    THEN "abandoned"
                    ELSE "live"
       IN  /\ eventSub' = IF first THEN [eventSub EXCEPT ![subdocs] = s] ELSE eventSub
           /\ subscriptions' = IF first THEN subscriptions \cup {s} ELSE subscriptions
           /\ streams' = [streams EXCEPT ![s] =
                             [st |-> "open", subdocs |-> subdocs, cap |-> cap, buf |-> <<>>,
                              recvOpen |-> TRUE, sendClosed |-> FALSE,
                              since |-> Len(fired[subdocs]), got |-> <<>>,
                              found |-> found]]
           /\ sendStreams' = [sendStreams EXCEPT ![subdocs] = @ \cup {s}]
           /\ last' = [op |-> "events", c |-> "", origin |-> NoOrigin, name |-> "",
                       res |-> "ok", ret |-> s, old |-> FALSE]
    /\ UNCHANGED <<txnVars, docVars, fired, cbLog, overflowed>>

\* the consumer of stream s takes the next event
Receive(s) ==
    /\ streams[s].st = "open"
    /\ streams[s].recvOpen
    /\ streams[s].buf # <<>>
    /\ streams' = [streams EXCEPT ![s].buf = Tail(@)]
    /\ last' = [op |-> "receive", c |-> "", origin |-> NoOrigin, name |-> "",
                res |-> "ok", ret |-> Head(streams[s].buf), old |-> FALSE]
    /\ UNCHANGED <<txnVars, docVars, sendStreams, eventSub, subscriptions, fired, cbLog,
                   overflowed>>

\* the consumer of stream s closes its receive stream
CloseReceive(s) ==
    /\ streams[s].st = "open"
    /\ streams[s].recvOpen
    /\ streams' = [streams EXCEPT ![s].recvOpen = FALSE]
    /\ last' = [op |-> "close", c |-> "", origin |-> NoOrigin, name |-> "",
                res |-> "ok", ret |-> s, old |-> FALSE]
    /\ UNCHANGED <<txnVars, docVars, sendStreams, eventSub, subscriptions, fired, cbLog,
                   overflowed>>

InitRest ==
    /\ rebuilt = [made |-> FALSE, E |-> NewEngine]
    /\ docTxn = [x \in Callers \cup {"doc"} |-> 0]
    /\ txn = [i \in TxnIds |-> NoTxn]
    /\ slot = 0
    /\ queue = <<>>
    /\ pend = [c \in Callers |-> NoReq]
    /\ scopes = [c \in Callers |-> <<>>]
    /\ wnode = [w \in WIds |-> "free"]
    /\ cache = [n \in Nodes |-> 0]
    /\ streams = [s \in StreamIds |-> NoStream]
    /\ sendStreams = [k \in BOOLEAN |-> {}]
    /\ eventSub = [k \in BOOLEAN |-> 0]
    /\ subscriptions = {}
    /\ fired = [k \in BOOLEAN |-> <<>>]
    /\ cbLog = [k \in BOOLEAN |-> <<>>]
    /\ overflowed = {}
    /\ last = [op |-> "init", c |-> "", origin |-> NoOrigin, name |-> "",
               res |-> "ok", ret |-> 0, old |-> FALSE]

\* Doc(): no roots, no Model
Init ==
    /\ InitRest
    /\ mt \in BOOLEAN
    /\ engine = NewEngine
    /\ twin = NoTwin

\* Doc({"a": wrapper}, Model=...), the wrapper with or without content
InitTwin ==
    /\ InitRest
    /\ mt = FALSE
    /\ \E content \in {"empty", "data"} :
          engine = [roots |-> [n \in Names |-> IF n = "a" THEN content ELSE "absent"],
                    child |-> FALSE, applied |-> {}]
    /\ twin = TwinDoc(engine)

\* Transactions: two callers, the explicit scopes and the mutating calls
NextTxn ==
    \/ \E c \in Pair, o \in Origins \cup {NoOrigin} : Transaction(c, o)
    \/ \E c \in Pair, o \in {"A", NoOrigin}, a \in BOOLEAN, t \in BOOLEAN :
          NewTransaction(c, o, a, t)
    \/ \E c \in Pair : ReadTransaction(c)
    \/ \E c \in Pair, e \in BOOLEAN : Exit(c, e)
    \/ \E c \in Pair : SetItem(c, "a", TRUE, FALSE)
    \/ \E c \in Pair, u \in Updates : ApplyUpdate(c, u)
    \/ \E c \in Pair : Grant(c)
    \/ \E c \in Pair : Timeout(c)

SpecTxn == Init /\ [][NextTxn]_vars

\* Waiting for the slot: three callers that acquire, wait, give up and release
NextFifo ==
    \/ \E c \in Callers, a \in BOOLEAN, t \in BOOLEAN : NewTransaction(c, NoOrigin, a, t)
    \/ \E c \in Callers : Transaction(c, NoOrigin)
    \/ \E c \in Callers : Exit(c, FALSE)
    \/ \E c \in Callers : Grant(c)
    \/ \E c \in Callers : Timeout(c)

SpecFifo == Init /\ [][NextFifo]_vars

\* A document with a Model: updates applied inside and outside read transactions
NextTwin ==
    \/ \E u \in TwinUpdates : ApplyUpdate("c1", u)
    \/ \E n \in Names : SetItem("c1", n, TRUE, FALSE)
    \/ Transaction("c1", NoOrigin)
    \/ ReadTransaction("c1")
    \/ \E e \in BOOLEAN : Exit("c1", e)

SpecTwin == InitTwin /\ [][NextTwin]_vars

\* Serialisation: one caller changes the document and pickles it
NextPickle ==
    \/ \E n \in Names, d \in BOOLEAN : SetItem("c1", n, d, FALSE)
    \/ \E b \in BOOLEAN : SetChild("c1", b)
    \/ \E u \in Updates : ApplyUpdate("c1", u)
    \/ Transaction("c1", NoOrigin)
    \/ \E e \in BOOLEAN : Exit("c1", e)
    \/ Pickle("c1")

SpecPickle == Init /\ [][NextPickle]_vars

\* Root assignment with any key, inside and outside transactions
NextKey ==
    \/ \E k \in Keys, d \in BOOLEAN : SetItemKey("c1", k, d)
    \/ \E o \in Origins \cup {NoOrigin} : Transaction("c1", o)
    \/ ReadTransaction("c1")
    \/ \E e \in BOOLEAN : Exit("c1", e)

SpecKey == Init /\ [][NextKey]_vars

\* Root access and the identity cache: one caller
NextCache ==
    \/ \E n \in Names, d \in BOOLEAN, k \in BOOLEAN : SetItem("c1", n, d, k)
    \/ \E n \in Names : Get("c1", n)
    \/ \E n \in Names : GetItem("c1", n)
    \/ \E b \in BOOLEAN : SetChild("c1", b)
    \/ GetChild("c1")
    \/ \E w \in WIds : DropWrapper(w)
    \/ ReadTransaction("c1")
    \/ \E e \in BOOLEAN : Exit("c1", e)

SpecCache == Init /\ [][NextCache]_vars

\* The event streams: one committing caller on the event loop, and the consumers
NextBus ==
    \/ Transaction("c1", NoOrigin)
    \/ \E e \in BOOLEAN : Exit("c1", e)
    \/ SetItem("c1", "a", TRUE, FALSE)
    \/ SetChild("c1", TRUE)
    \/ \E k \in BOOLEAN, cap \in Caps :
          /\ Cardinality({s \in StreamIds : streams[s].st = "open"}) < BusStreams
          /\ Events(k, cap)
    \/ \E s \in StreamIds : Receive(s)
    \/ \E s \in StreamIds : CloseReceive(s)

InitBus == Init /\ ~mt

SpecBus == InitBus /\ [][NextBus]_vars

\* The streams of transaction events, subscribed again after their consumers left
NextResub ==
    \/ Transaction("c1", NoOrigin)
    \/ Exit("c1", FALSE)
    \/ SetItem("c1", "a", TRUE, FALSE)
    \/ \E cap \in Caps : Events(FALSE, cap)
    \/ \E s \in StreamIds : Receive(s)
    \/ \E s \in StreamIds : CloseReceive(s)

SpecResub == InitBus /\ [][NextResub]_vars

\* ------------------------------------------------------------ properties
WriteHolders == {t \in TxnIds : txn[t].st = "open" /\ ~txn[t].ro}
InScope(c, t) == \E i \in 1..Len(scopes[c]) : scopes[c][i] = t
Mutating == {"setitem", "setitem_keep", "get", "apply_update", "nodeset"}
Lookups == {"getitem", "getchild"}
Live(s) == streams[s].st = "open" /\ streams[s].recvOpen /\ ~streams[s].sendClosed
HasRoom(s) == Len(streams[s].buf) < streams[s].cap
Registered(k) == {s \in subscriptions : streams[s].subdocs = k}
StreamsOf(k) == {s \in StreamIds : streams[s].st = "open" /\ streams[s].subdocs = k}
Corresponds(T, E) == T.roots = E.roots /\ T.applied = E.applied
AllGone(k) == StreamsOf(k) # {} /\ \A s \in StreamsOf(k) : ~streams[s].recvOpen

\* C1: a transaction(origin) call made while a transaction is active enters that
\* same transaction and creates none when origin is unset or equal to the active
\* origin; otherwise it fails with the incompatible-origin error and the active
\* transaction, its origin, the slot and the scopes are unchanged.
C1_TransactionReuse ==
    [][(last'.op = "transaction" /\ last'.res # "blocked" /\ GetTxn(last'.c) # 0) =>
          LET c == last'.c
              t == GetTxn(c)
          IN  IF last'.origin = NoOrigin \/ last'.origin = txn[t].origin
              THEN /\ last'.res = "ok"
                   /\ scopes'[c] = Append(scopes[c], t)
                   /\ docTxn' = docTxn
                   /\ \A i \in TxnIds : txn'[i].st = txn[i].st /\ txn'[i].origin = txn[i].origin
              ELSE /\ last'.res = "IncompatibleOrigin"
                   /\ UNCHANGED <<docTxn, txn, slot, scopes>>]_vars

\* a call failed with the incompatible-origin error inside a transaction that an
\* earlier nested call had reused
C1_Witness ==
    /\ last.op = "transaction"
    /\ last.res = "IncompatibleOrigin"
    /\ \E c \in Callers : Len(scopes[c]) = 2 /\ scopes[c][1] = scopes[c][2]
                             /\ txn[scopes[c][1]].origin \in Origins

\* C2: at most one write transaction is open on the document and it is the one
\* holding the slot; with multithreading at most one caller is inside a write
\* transaction; a new_transaction() is granted only when no write transaction is
\* open, and one called while the slot is held is put to wait.
C2_MutualExclusion ==
    /\ [](/\ Cardinality(WriteHolders) <= 1
          /\ \A t \in WriteHolders : slot = t
          /\ mt => Cardinality({c \in Callers : \E t \in WriteHolders : InScope(c, t)}) <= 1)
    /\ [][(last'.op = "new_transaction" /\ mt) =>
             LET c == last'.c IN
             IF WriteHolders = {}
             THEN last'.res = "ok" =>
                     \E t \in TxnIds : /\ txn[t].st = "unused"
                                       /\ WriteHolders' = {t}
                                       /\ scopes'[c] = Append(scopes[c], t)
             ELSE /\ last'.res = "blocked"
                  /\ pend'[c].op = "new_transaction"
                  /\ WriteHolders' = WriteHolders]_vars

\* with multithreading, a caller waits in new_transaction() while another caller
\* is inside its write transaction
C2_Witness ==
    /\ mt
    /\ \E c, d \in Callers :
          /\ c # d
          /\ pend[c].op = "new_transaction"
          /\ \E t \in WriteHolders : InScope(d, t) /\ slot = t

\* C3: a granted transaction releases the slot exactly once, when its last scope
\* ends, normally or by a failure raised inside it: a finished write transaction
\* has released once, an open one not yet and is inside a scope of some caller,
\* the slot is held by an open transaction only, and when no scope is open the
\* slot is free and no transaction is active.
C3_GuaranteedRelease ==
    /\ \A t \in TxnIds :
          /\ txn[t].rel <= 1
          /\ (txn[t].st = "done" /\ ~txn[t].ro) => txn[t].rel = 1
          /\ txn[t].st = "open" => (txn[t].rel = 0 /\ \E c \in Callers : InScope(c, t))
    /\ slot # 0 => txn[slot].st = "open"
    /\ (\A c \in Callers : scopes[c] = <<>>) =>
          (slot = 0 /\ \A x \in DOMAIN docTxn : docTxn[x] = 0)

\* a mutating call failed inside the transaction it had opened itself, the
\* transaction is finished and released, and the slot is free
C3_Witness ==
    /\ last.op \in Mutating
    /\ last.res \in {"EngineError", "ReadOnly"}
    /\ \A c \in Callers : scopes[c] = <<>>
    /\ \E t \in TxnIds : txn[t].st = "done" /\ ~txn[t].ro /\ txn[t].rel = 1
    /\ slot = 0

C5_IdentityStability ==
    /\ [](\A n \in Nodes : cache[n] # 0 => wnode[cache[n]] = n)
    /\ [][(last'.op \in Lookups /\ last'.res = "ok") =>
             LET n == IF last'.op = "getchild" THEN Child ELSE last'.name
                 w == last'.ret
             IN  /\ wnode'[w] = n
                 /\ cache'[n] = w
                 /\ IF cache[n] # 0
                    THEN w = cache[n] /\ wnode' = wnode /\ last'.old
                    ELSE wnode[w] = "free" /\ ~last'.old]_vars

\* a lookup returned a wrapper that existed before the call
C5_Witness ==
    /\ last.op \in Lookups
    /\ last.res = "ok"
    /\ last.old
    /\ cache[wnode[last.ret]] = last.ret

\* C6: no two distinct reachable wrappers are bound to the same node.
C6_WrapperUniqueness ==
    \A v, w \in WIds : (wnode[v] # "free" /\ wnode[v] = wnode[w]) => v = w

\* C7: a stream whose consumer is live and never found its queue full has been
\* given every event of its kind fired since it was subscribed, once, in commit
\* order.
C7_FanOutOrder ==
    \A s \in StreamIds :
        (Live(s) /\ s \notin overflowed) =>
            streams[s].got = SubSeq(fired[streams[s].subdocs], streams[s].since + 1,
                                    Len(fired[streams[s].subdocs]))

\* C8 as stated: once every consumer of a kind is gone, no commit invokes the
\* bus's native callback of that kind.
C8_NoCallbackAfterAllGone ==
    [][\A k \in BOOLEAN : AllGone(k) => cbLog'[k] = cbLog[k]]_vars

\* C8 as amended: once every consumer of a kind is gone, the next native event of
\* the kind invokes the callback once more, and that invocation evicts every
\* queue of the kind and releases the native subscription; with no native
\* subscription no commit invokes the callback.
C8_LazyTeardown ==
    [][\A k \in BOOLEAN :
          /\ (AllGone(k) /\ cbLog'[k] # cbLog[k]) =>
                /\ Len(cbLog'[k]) = Len(cbLog[k]) + 1
                /\ sendStreams'[k] = {}
                /\ Registered(k)' = {}
          /\ (AllGone(k) /\ Registered(k) = {}) => cbLog'[k] = cbLog[k]]_vars

\* the callback was invoked after every consumer was gone, and tore the
\* subscription down: its last event reached no queue
C8_Witness ==
    \E k \in BOOLEAN :
        /\ AllGone(k)
        /\ cbLog[k] # <<>>
        /\ sendStreams[k] = {}
        /\ Registered(k) = {}
        /\ \A s \in StreamsOf(k) :
              \A i \in 1..Len(streams[s].got) : streams[s].got[i] # cbLog[k][Len(cbLog[k])]

\* C9: a stream found full is evicted from the set of send streams, and the
\* committing call does not fail because of it.
C9_OverflowEvicts ==
    /\ \A s \in overflowed : s \notin sendStreams[streams[s].subdocs]
    /\ last.res # "WouldBlock"

\* C10: when the bus callback is invoked with an event, every stream of the kind
\* whose consumer is live and whose queue has room is given the event, whatever
\* the state of the other streams.
C10_ConsumerIsolation ==
    [][\A k \in BOOLEAN : \A s \in sendStreams[k] :
          (Live(s) /\ HasRoom(s) /\ cbLog'[k] # cbLog[k]) =>
              streams'[s].got = Append(streams[s].got, fired'[k][Len(fired'[k])])]_vars

\* C11: a new_transaction() is granted a transaction object that did not exist
\* before, never one that is active, whatever the origins; it is granted only when
\* the caller has no active transaction and no write transaction is open, and a
\* call made while the caller's document has an active transaction is not granted.
C11_NeverReuses ==
    [][(last'.op = "new_transaction") =>
          LET c == last'.c IN
          /\ last'.res = "ok" =>
                /\ Len(scopes'[c]) = Len(scopes[c]) + 1
                /\ txn[scopes'[c][Len(scopes'[c])]].st = "unused"
                /\ GetTxn(c) = 0
                /\ WriteHolders = {}
          /\ (GetTxn(c) # 0 \/ WriteHolders # {}) =>
                last'.res \in {"blocked", "AlreadyInTransaction"}]_vars

\* a new_transaction(origin) waits while the active transaction has that very origin
C11_Witness ==
    \E c \in Callers :
        /\ pend[c].op = "new_transaction"
        /\ pend[c].origin \in Origins
        /\ slot # 0
        /\ txn[slot].origin = pend[c].origin

\* C12: a new_transaction(timeout) that waits and whose timeout elapses fails with
\* the timeout error; neither its wait nor its failure changes the holder, the
\* holder's origin, the transactions, the scopes or the engine, and after the
\* failure the other waiters are waiting as before, in the same order, and the
\* caller is no longer one of them.
C12_Timeout ==
    /\ [](\A c \in Callers :
            /\ pend[c].op # "none" <=> \E i \in 1..Len(queue) : queue[i] = c
            /\ \A i, j \in 1..Len(queue) : queue[i] = queue[j] => i = j)
    /\ [][(last'.op = "new_transaction" /\ last'.res = "blocked") =>
             /\ UNCHANGED <<docTxn, txn, slot, scopes, engine>>
             /\ queue' = Append(queue, last'.c)]_vars
    /\ [][(last'.op = "timeout") =>
             LET c == last'.c IN
             /\ pend[c].op = "new_transaction" /\ pend[c].tmo
             /\ last'.res = "Timeout"
             /\ UNCHANGED <<docTxn, txn, slot, scopes, engine>>
             /\ queue' = SelectSeq(queue, LAMBDA x : x # c)
             /\ \A d \in Callers \ {c} : pend'[d] = pend[d]
             /\ pend'[c].op = "none"]_vars

\* a timeout elapsed while the holder still holds the slot and another caller waits
C12_Witness ==
    /\ last.op = "timeout"
    /\ last.res = "Timeout"
    /\ slot # 0
    /\ txn[slot].st = "open"
    /\ queue # <<>>

\* C13: without multithreading, a new_transaction() made while a transaction is
\* active is never granted; entered from blocking code it fails at once with
\* "Already in a transaction" and changes nothing, and only a call entered from a
\* suspension point waits.
C13_FailFast ==
    [][(last'.op = "new_transaction" /\ ~mt /\ docTxn["doc"] # 0) =>
          LET c == last'.c IN
          \/ /\ last'.res = "AlreadyInTransaction"
             /\ UNCHANGED <<docTxn, txn, slot, scopes, queue, pend, engine>>
          \/ /\ last'.res = "blocked"
             /\ pend'[c].op = "new_transaction"
             /\ pend'[c].flag]_vars

\* without multithreading a new_transaction() failed at once inside an active
\* transaction, which is still open
C13_Witness ==
    /\ ~mt
    /\ last.op = "new_transaction"
    /\ last.res = "AlreadyInTransaction"
    /\ docTxn["doc"] # 0
    /\ txn[docTxn["doc"]].st = "open"
    /\ queue = <<>>

C15_ValidatedApplyUpdate ==
    [][(last'.op = "apply_update" /\ twin.on /\ last'.res = "ValidationError") =>
          (engine' = engine /\ Corresponds(twin', engine'))]_vars

\* C20: with a Model configured, an apply_update that fails and leaves the engine
\* state of the document as it was leaves the twin with no update that the
\* document does not have, unless the twin had it before.
C20_TwinConsistency ==
    [][(/\ last'.op = "apply_update"
        /\ twin.on
        /\ last'.res \notin {"ok", "blocked"}
        /\ engine' = engine) =>
            twin'.applied \subseteq (twin.applied \cup engine.applied)]_vars

\* C16: the document rebuilt from what __reduce__ returns, the full update and
\* the roots with their types, has the state, the root names and the root
\* contents of the original, which __reduce__ leaves as it was.
C16_RoundTrip ==
    [][(last'.op = "reduce" /\ last'.res = "ok") =>
          /\ rebuilt'.made
          /\ rebuilt'.E = engine
          /\ engine' = engine]_vars

\* a document with a root without content, a root with content and an applied
\* update was pickled and rebuilt
C16_Witness ==
    /\ last.op = "reduce"
    /\ last.res = "ok"
    /\ rebuilt.made
    /\ \E n, m \in Names : rebuilt.E.roots[n] = "empty" /\ rebuilt.E.roots[m] = "data"
    /\ rebuilt.E.applied # {}

\* C17 as stated: a root assignment whose name is not a non-empty identifier
\* string fails before any transaction is opened and changes nothing.
C17_RootNameValidation ==
    [][(last'.op = "setitem_key" /\ last'.name \notin Identifiers) =>
          /\ last'.res = "KeyMustBeString"
          /\ UNCHANGED <<docTxn, txn, slot, scopes, queue, pend, engine, wnode, cache>>]_vars

\* C17 as amended: a root assignment whose name is not a string fails before any
\* transaction is opened and changes nothing; one whose name is a string, the
\* empty string included, is never refused for its name.
C17_NonStringRejected ==
    [][(last'.op = "setitem_key") =>
          IF IsInstanceStr(last'.name)
          THEN last'.res # "KeyMustBeString"
          ELSE /\ last'.res = "KeyMustBeString"
               /\ UNCHANGED <<docTxn, txn, slot, scopes, queue, pend, engine, wnode,
                              cache>>]_vars

\* an assignment to a key that is no string was refused inside an open
\* transaction, in a document whose root "" has been assigned
C17_Witness ==
    /\ last.op = "setitem_key"
    /\ last.name = NonString
    /\ last.res = "KeyMustBeString"
    /\ GetTxn("c1") # 0
    /\ txn[GetTxn("c1")].st = "open"
    /\ engine.roots[""] # "absent"

\* C18: of each kind at most one native callback is registered at any time;
\* a native callback is registered only by an events() call that finds no send
\* stream of the kind; and after every events() and _send_event call a native
\* callback of a kind is registered exactly when the kind has a send stream.
C18_SharedNativeCallback ==
    [][\A k \in BOOLEAN :
          /\ Cardinality(Registered(k)') <= 1
          /\ (Registered(k)' # {}) <=> (sendStreams'[k] # {})
          /\ ~(Registered(k)' \subseteq Registered(k)) =>
                /\ last'.op = "events"
                /\ sendStreams[k] = {}
                /\ Registered(k)' = {last'.ret}]_vars

\* two streams of one kind share the one native callback of the kind, which has
\* been invoked
C18_Witness ==
    \E k \in BOOLEAN :
        /\ Cardinality(sendStreams[k]) = 2
        /\ Cardinality(Registered(k)) = 1
        /\ cbLog[k] # <<>>
        /\ last.op = "events"

\* C19: an events() call made after every stream of the kind was evicted and the
\* native callback unregistered registers a native callback again; the stream of
\* such a call, and the stream of a call that found only abandoned streams in the
\* set, is given every event of the kind fired after the call, as long as its
\* consumer is live and its queue was never found full.
C19_Resubscription ==
    [][/\ \A k \in BOOLEAN :
              (last'.op = "events" /\ streams'[last'.ret].found = "torn"
                  /\ streams'[last'.ret].subdocs = k) =>
                  (Registered(k) = {} /\ Registered(k)' = {last'.ret})
       /\ \A s \in StreamIds :
              (streams'[s].found \in {"torn", "abandoned"} /\ Live(s)'
                  /\ s \notin overflowed') =>
                  streams'[s].got = SubSeq(fired'[streams'[s].subdocs],
                                           streams'[s].since + 1,
                                           Len(fired'[streams'[s].subdocs]))]_vars

====
